---- MODULE Spec2Model ----
(***************************************************************************)
(* Launch preparation pipeline of starport's networkchain package:         *)
(* Chain.Build with its binary cache, Chain.Prepare and fetchSource.       *)
(*                                                                         *)
(* Hashes and checksums are small positive integers; 0 stands for Go's     *)
(* empty string "" (no hash, no checksum, no path).  A binary on disk is   *)
(* identified with the checksum of its content, 0 meaning that no binary   *)
(* can be found.                                                           *)
(***************************************************************************)
EXTENDS Integers, Sequences, FiniteSets, TLC

\* ------------------------------------------------------------------ bounds
MaxLaunchID == 1
MaxKeys     == 2
MaxCommits  == 4
MaxFetches  == 2
MaxValidators == 2
MaxAccounts == 2
MaxModules == 2

LaunchIDs == 0..MaxLaunchID   \* 0: a chain that is not tied to a launch
Hashes    == {1, 2}           \* source hashes
Checksums == {1, 2}           \* checksums of binaries

VARIABLES
    launchID,    \* Chain.launchID
    hash,        \* Chain.hash, the resolved source hash
    binary,      \* checksum of the binary on disk, 0 when none is found
    cache,       \* the binary cache file: a set of CachedBinary records
    last,        \* history: what the Chain.Build call that just returned did
                 \* (reset by every other step)
    homeExists,  \* whether the chain home directory exists on disk
    valKey,      \* how many times a validator key has been generated
    prep,        \* history: what the Chain.Prepare call that just returned did
                 \* (reset by every other step of the chain)
    remote,      \* the remote repository: its commits and its branch tips
    tmpDirs,     \* the temporary directories that exist on disk
    fetch,       \* history: what the latest fetchSource call did
    fetchPrev,   \* history: the call before the latest one, when it succeeded
                 \* with a pinned hash
    genesisVals, \* the genesis validators of the launch, in their order
    config,      \* config.toml of the chain home
    spn,         \* the file of the tunnelled peers
    peerRun,     \* history: the latest updateConfigFromGenesisValidators call
    genesisAccs, \* the genesis accounts of the launch, in their order
    vestingAccs, \* the vesting accounts of the launch, in their order
    genesis,     \* the genesis file of the chain home
    gentxDir,    \* the gentx directory of the chain home
    genRun,      \* history: the latest buildGenesis call
    jsModules,   \* the number of modules generateModules has to generate
    jsVuex,      \* whether a Vuex store path is set
    jsMain,      \* where generateModules is
    jsWorkers,   \* the workers of the group: one per module handed to gg.Go
    jsGroupErr,  \* the error the group keeps (0: none): the worker it came from
    jsErrOrder,  \* history: the workers that returned an error, in that order
    ctxDone,     \* whether the generator's context is cancelled
    jsResult,    \* what generateModules returned
    appTree,     \* the files under the chain root
    appFound     \* history: the latest FindAppFilePath call

vars == <<launchID, hash, binary, cache, last, homeExists, valKey, prep,
          remote, tmpDirs, fetch, fetchPrev, genesisVals, config, spn, peerRun,
          genesisAccs, vestingAccs, genesis, gentxDir, genRun,
          jsModules, jsVuex, jsMain, jsWorkers, jsGroupErr, jsErrOrder, ctxDone,
          jsResult, appTree, appFound>>

chainVars == <<launchID, hash, binary, cache, last, homeExists, valKey, prep>>
fetchVars == <<remote, tmpDirs, fetch, fetchPrev>>
peerVars == <<genesisVals, config, spn, peerRun>>
genVars == <<genesisAccs, vestingAccs, genesis, gentxDir, genRun>>
jsVars == <<jsModules, jsVuex, jsMain, jsWorkers, jsGroupErr, jsErrOrder, ctxDone, jsResult>>
appVars == <<appTree, appFound>>


\* ------------------------------------------------------------ binary cache
NoRec == [launchID |-> 0, sourceHash |-> 0, binaryChecksum |-> 0]

\* checksum.BinaryChecksum: looks the binary up and hashes the file.  A
\* binary that cannot be found gives exec.ErrNotFound and the sum "".
BinaryChecksum(bin, ioErr) ==
    IF bin = 0 THEN [sum |-> 0, err |-> "notfound"]
    ELSE IF ioErr THEN [sum |-> 0, err |-> "other"]
    ELSE [sum |-> bin, err |-> "none"]

\* CheckBinaryCacheForLaunchID: a record of the list matches all three values.
CheckBinaryCacheForLaunchID(records, id, sum, src) ==
    \E r \in records :
        /\ r.launchID = id
        /\ r.binaryChecksum = sum
        /\ r.sourceHash = src

\* CacheBinaryForLaunchID: sets the record of the launch, replacing an old one.
CacheBinaryForLaunchID(records, id, sum, src) ==
    {r \in records : r.launchID # id}
        \cup {[launchID |-> id, sourceHash |-> src, binaryChecksum |-> sum]}

\* The record the cache holds for a launch, NoRec when it holds none.
RecordOf(records, id) ==
    IF \E r \in records : r.launchID = id
    THEN CHOOSE r \in records : r.launchID = id
    ELSE NoRec

\* ------------------------------------------------------------- Chain.Build
\* `if c.launchID != 0`: only a published chain consults the cache.
UseCacheAlways(id) == TRUE
UseCache(id) == id # 0

\* `err != nil && !errors.Is(err, exec.ErrNotFound)` before the lookup.
LookupChecksumFatal(err) == err # "none" /\ err # "notfound"

\* `if err != nil` after the build.
StoreChecksumFatal(err) == err # "none"

\* CheckBinaryCacheForLaunchID(c.launchID, binaryChecksum, c.hash)
BinaryMatchAnySource(records, id, sum, src) ==
    \E r \in records : r.launchID = id /\ r.binaryChecksum = sum
BinaryMatch(records, id, sum, src) ==
    CheckBinaryCacheForLaunchID(records, id, sum, src)

\* CacheBinaryForLaunchID(c.launchID, binaryChecksum, c.hash), on every launch
\* identity the build is run for.
StoreBuiltStale(records, id, sum, src) ==
    IF \E r \in records : r.launchID = id
    THEN records
    ELSE CacheBinaryForLaunchID(records, id, sum, src)
StoreBuilt(records, id, sum, src) ==
    CacheBinaryForLaunchID(records, id, sum, src)

\* What the environment answers during one Build call: the binary the adapter's
\* build leaves behind, and the one call that fails, if any (Build returns on
\* the first error, so a second failing call would never be made).
Faults == {"none", "binary", "read1", "load", "build", "read2", "save"}
BuildEnvs == [fault : Faults, out : {0} \cup Checksums]

Outcome(id, src, bin, records, e, failedAt, consulted, hit, built, sum1, sum2, stored, bin2, records2) ==
    [ called    |-> TRUE,
      launchID  |-> id,
      hash      |-> src,
      pre       |-> bin,
      prior     |-> RecordOf(records, id),
      failedAt  |-> failedAt,
      consulted |-> consulted,
      hit       |-> hit,
      built     |-> built,
      sum1      |-> sum1,
      sum2      |-> sum2,
      stored    |-> stored,
      ret       |-> IF failedAt = "none" THEN "binary" ELSE "err",
      post      |-> bin2,
      cache     |-> records2 ]

\* The part of Build from `// build binary` on.
BuildAndStore(id, src, bin, records, e, consulted, sum1) ==
    IF e.fault = "build"
    THEN Outcome(id, src, bin, records, e, "build", consulted, FALSE, TRUE,
                 sum1, "notrun", FALSE, bin, records)
    ELSE LET after == BinaryChecksum(e.out, e.fault = "read2") IN
         IF StoreChecksumFatal(after.err)
         THEN Outcome(id, src, bin, records, e, "checksum", consulted, FALSE, TRUE,
                      sum1, after.err, FALSE, e.out, records)
         ELSE IF e.fault = "save"
         THEN Outcome(id, src, bin, records, e, "store", consulted, FALSE, TRUE,
                      sum1, after.err, FALSE, e.out, records)
         ELSE Outcome(id, src, bin, records, e, "none", consulted, FALSE, TRUE,
                      sum1, after.err, TRUE, e.out,
                      StoreBuilt(records, id, after.sum, src))

\* Chain.Build as a function of the chain, the disk and the environment.
BuildRun(id, src, bin, records, e) ==
    IF UseCache(id)
    THEN IF e.fault = "binary"
         THEN Outcome(id, src, bin, records, e, "binary", FALSE, FALSE, FALSE,
                      "notrun", "notrun", FALSE, bin, records)
         ELSE LET before == BinaryChecksum(bin, e.fault = "read1") IN
              IF LookupChecksumFatal(before.err)
              THEN Outcome(id, src, bin, records, e, "lookupchecksum", FALSE, FALSE, FALSE,
                           before.err, "notrun", FALSE, bin, records)
              ELSE IF e.fault = "load"
              THEN Outcome(id, src, bin, records, e, "lookup", TRUE, FALSE, FALSE,
                           before.err, "notrun", FALSE, bin, records)
              ELSE IF BinaryMatch(records, id, before.sum, src)
              THEN Outcome(id, src, bin, records, e, "none", TRUE, TRUE, FALSE,
                           before.err, "notrun", FALSE, bin, records)
              ELSE BuildAndStore(id, src, bin, records, e, TRUE, before.err)
    ELSE BuildAndStore(id, src, bin, records, e, FALSE, "notrun")

NoBuild ==
    [ called |-> FALSE, launchID |-> 0, hash |-> 0, pre |-> 0, prior |-> NoRec,
      failedAt |-> "none", consulted |-> FALSE, hit |-> FALSE, built |-> FALSE,
      sum1 |-> "notrun", sum2 |-> "notrun", stored |-> FALSE, ret |-> "err",
      post |-> 0, cache |-> {} ]

NoPrep ==
    [ called |-> FALSE, stat |-> "none", fault |-> "none", trace |-> <<>>,
      ret |-> "none", homeBefore |-> FALSE, keyBefore |-> 0, cacheHit |-> FALSE ]

\* One call of Chain.Build.
Build ==
    \E e \in BuildEnvs :
        LET o == BuildRun(launchID, hash, binary, cache, e) IN
        /\ binary' = o.post
        /\ cache' = o.cache
        /\ last' = o
        /\ prep' = NoPrep
        /\ UNCHANGED <<launchID, hash, homeExists, valKey, fetchVars, peerVars, genVars, jsVars, appVars>>

\* SourceLaunch: a chain is set up from a launch and its source hash.
SourceLaunch ==
    \E id \in LaunchIDs, src \in Hashes :
        /\ launchID' = id
        /\ hash' = src
        /\ last' = NoBuild
        /\ prep' = NoPrep
        /\ UNCHANGED <<binary, cache, homeExists, valKey, fetchVars, peerVars, genVars, jsVars, appVars>>

\* The binary on disk is replaced from outside.
ReplaceBinary ==
    \E b \in Checksums :
        /\ b # binary
        /\ binary' = b
        /\ last' = NoBuild
        /\ prep' = NoPrep
        /\ UNCHANGED <<launchID, hash, cache, homeExists, valKey, fetchVars, peerVars, genVars, jsVars, appVars>>

\* The binary on disk is deleted from outside.
DeleteBinary ==
    /\ binary # 0
    /\ binary' = 0
    /\ last' = NoBuild
    /\ prep' = NoPrep
    /\ UNCHANGED <<launchID, hash, cache, homeExists, valKey, fetchVars, peerVars, genVars, jsVars, appVars>>

\* ----------------------------------------------------------- Chain.Prepare
\* The calls Prepare makes, by the name of the function called.  "Home" is
\* c.chain.Home(), "Stat" is os.Stat(chainHome), "Build" is the adapter's
\* c.chain.Build, "Binary" is c.chain.Binary(), "Commands" is c.chain.Commands.
PrepSteps ==
    {"Home", "Stat", "Init", "Binary", "Build", "initGenesis", "buildGenesis",
     "Commands", "ValidateGenesis", "UnsafeReset"}

\* What os.Stat can answer: not-exist only for a missing home, success only
\* for an existing one, another error (permission, I/O) in both cases.
StatResults(exists) == IF exists THEN {"ok", "error"} ELSE {"notexist", "error"}

\* The switch on the error of os.Stat: the calls of the chosen case, and
\* whether Prepare goes on after them.
EntryStepsAlwaysInit(stat) == <<"Init", "Binary">>
EntrySteps(stat) ==
    CASE stat = "notexist" -> <<"Init", "Binary">>
      [] stat = "error"    -> <<>>
      [] OTHER             -> <<"Build", "initGenesis">>

\* The calls after the switch, in the order of the code.
CommonStepsResetFirst == <<"buildGenesis", "Commands", "UnsafeReset", "ValidateGenesis">>
CommonSteps == <<"buildGenesis", "Commands", "ValidateGenesis", "UnsafeReset">>

\* `if err != nil { return err }` follows every call.
ReturnsOnErrorButReset(step) == step # "UnsafeReset"
ReturnsOnError(step) == TRUE

\* The calls of a list that are made when `fault` is the call that fails: all
\* of them up to and including the first failing call whose error is returned.
RECURSIVE Executed(_, _)
Executed(steps, fault) ==
    IF steps = <<>> THEN <<>>
    ELSE IF Head(steps) = fault /\ ReturnsOnError(Head(steps))
    THEN <<Head(steps)>>
    ELSE <<Head(steps)>> \o Executed(Tail(steps), fault)

Elems(seq) == {seq[i] : i \in 1..Len(seq)}

\* What the environment answers during one Prepare call: the answer of
\* os.Stat, the one call that fails (if any), the binary the adapter's build
\* leaves, and whether a failing Init leaves a home directory behind.
PrepEnvs(exists) ==
    { e \in [ stat    : StatResults(exists),
              fault   : (PrepSteps \ {"Stat"}) \cup {"none"},
              out     : {0} \cup Checksums,
              partial : BOOLEAN ] :
        \* answers that are never asked for are left at one value
        /\ e.stat = "error" => e.fault \in {"Home", "none"}
        /\ e.partial => (e.stat = "notexist" /\ e.fault = "Init")
        /\ e.out # 0 => (e.stat = "ok" /\ e.fault \notin {"Home", "Build"}) }

\* Chain.Prepare: the calls it makes, in order, and what it returns.
PrepareRun(e) ==
    LET planned ==
            IF e.stat = "error" THEN <<"Home", "Stat">>
            ELSE <<"Home", "Stat">> \o EntrySteps(e.stat) \o CommonSteps
        trace == Executed(planned, e.fault)
        failed ==
            \/ e.stat = "error" /\ "Stat" \in Elems(trace)
            \/ /\ trace # <<>>
               /\ trace[Len(trace)] = e.fault
               /\ ReturnsOnError(e.fault)
    IN  [ trace |-> trace, ret |-> IF failed THEN "err" ELSE "nil" ]

\* Chain.Init generates a new validator key and the default configuration in
\* a new home; a failing Init may leave a home directory behind.
InitDone(trace, fault) == "Init" \in Elems(trace) /\ fault # "Init"

\* The adapter's build replaces the binary.
AdapterBuildDone(trace, fault) == "Build" \in Elems(trace) /\ fault # "Build"

\* One call of Chain.Prepare.
Prepare ==
    \E e \in PrepEnvs(homeExists) :
        LET r == PrepareRun(e) IN
        /\ "Init" \in Elems(r.trace) => valKey < MaxKeys
        /\ prep' = [ called     |-> TRUE,
                     stat       |-> IF "Stat" \in Elems(r.trace) THEN e.stat ELSE "none",
                     fault      |-> e.fault,
                     trace      |-> r.trace,
                     ret        |-> r.ret,
                     homeBefore |-> homeExists,
                     keyBefore  |-> valKey,
                     cacheHit   |-> /\ launchID # 0
                                    /\ binary # 0
                                    /\ CheckBinaryCacheForLaunchID(cache, launchID, binary, hash) ]
        /\ homeExists' =
              IF InitDone(r.trace, e.fault) THEN TRUE
              ELSE IF "Init" \in Elems(r.trace) THEN e.partial
              ELSE homeExists
        /\ valKey' = IF InitDone(r.trace, e.fault) THEN valKey + 1 ELSE valKey
        /\ binary' = IF AdapterBuildDone(r.trace, e.fault) THEN e.out ELSE binary
        /\ last' = NoBuild
        /\ UNCHANGED <<launchID, hash, cache, fetchVars, peerVars, genVars, jsVars, appVars>>

\* The home directory is removed from outside.
RemoveHome ==
    /\ homeExists
    /\ homeExists' = FALSE
    /\ last' = NoBuild
    /\ prep' = NoPrep
    /\ UNCHANGED <<launchID, hash, binary, cache, valKey, fetchVars, peerVars, genVars, jsVars, appVars>>

\* ------------------------------------------------------------- fetchSource
\* Commits are numbered 1, 2, ...; parent[c] is the parent of commit c, 0 for
\* the root.  A commit's hash is its number; 0 is the empty hash "".
Branches == {"main", "dev"}
DefaultBranch == "main"

\* The ref argument: "" (none), a branch of the remote, or a ref it lacks.
RefArgs == {"", "main", "dev", "gone"}

\* The customHash argument: "" (0), a commit of the initial remote (1..3), or
\* 4, a hash that no commit has until the next commit is pushed.
HashArgs == 0..4

RECURSIVE Ancestors(_, _)
Ancestors(parent, c) ==
    IF c = 0 THEN {} ELSE {c} \cup Ancestors(parent, parent[c])

\* git.PlainCloneContext: with a ref (SingleBranch) the clone holds the
\* history of that ref and HEAD is its tip; without one it holds every
\* branch and HEAD is the tip of the default branch.
CloneHead(rem, ref) ==
    IF ref = "" THEN rem.refs[DefaultBranch] ELSE rem.refs[ref]

CloneHistory(rem, ref) ==
    IF ref = ""
    THEN UNION {Ancestors(rem.parent, rem.refs[b]) : b \in Branches}
    ELSE Ancestors(rem.parent, rem.refs[ref])

CloneFails(rem, ref, e) == e.fault = "Clone" \/ (ref # "" /\ ref \notin Branches)

\* repo.ResolveRevision: the commit of a hash of the cloned history, 0 (an
\* error) for any other hash.
ResolveRevisionNewest(history, rev) ==
    IF rev \in history THEN CHOOSE c \in history : \A d \in history : d <= c ELSE 0
ResolveRevision(history, rev) == IF rev \in history THEN rev ELSE 0

\* `if customHash != ""`: a pinned hash is used instead of the HEAD.
IsPinnedNever(customHash) == FALSE
IsPinned(customHash) == customHash # 0

\* What the environment answers during one fetchSource call: the one call
\* that fails, if any.
FetchFaults == {"none", "MkdirTemp", "MkdirAll", "Clone", "Worktree", "Checkout", "Head"}
FetchEnvs == [fault : FetchFaults]

FetchResult(path, h, err, created, worktree) ==
    [path |-> path, hash |-> h, err |-> err, created |-> created, worktree |-> worktree]

\* fetchSource(ctx, url, ref, customHash) with `dir` the name os.MkdirTemp
\* picks; `created` is the directory it has made, `worktree` the commit that
\* is checked out in it.
fetchSource(rem, ref, customHash, dir, e) ==
    IF e.fault = "MkdirTemp" THEN FetchResult(0, 0, "MkdirTemp", 0, 0)
    ELSE IF e.fault = "MkdirAll" THEN FetchResult(0, 0, "MkdirAll", dir, 0)
    ELSE IF CloneFails(rem, ref, e) THEN FetchResult(0, 0, "Clone", dir, 0)
    ELSE LET head    == CloneHead(rem, ref)
             history == CloneHistory(rem, ref)
         IN  IF IsPinned(customHash)
             THEN IF e.fault = "Worktree"
                  THEN FetchResult(0, 0, "Worktree", dir, head)
                  ELSE LET h == ResolveRevision(history, customHash) IN
                       IF h = 0 THEN FetchResult(0, 0, "ResolveRevision", dir, head)
                       ELSE IF e.fault = "Checkout"
                       THEN FetchResult(0, 0, "Checkout", dir, head)
                       ELSE FetchResult(dir, customHash, "none", dir, h)
             ELSE IF e.fault = "Head"
                  THEN FetchResult(0, 0, "Head", dir, head)
                  ELSE FetchResult(dir, head, "none", dir, head)

NoFetch ==
    [ called |-> FALSE, ref |-> "", customHash |-> 0, remote |-> <<>>,
      path |-> 0, hash |-> 0, err |-> "none", created |-> 0, worktree |-> 0 ]

\* What is kept of an earlier call.
NoPinned == [called |-> FALSE, ref |-> "", customHash |-> 0, hash |-> 0, worktree |-> 0]

Pinned(f) ==
    [ called |-> TRUE, ref |-> f.ref, customHash |-> f.customHash,
      hash |-> f.hash, worktree |-> f.worktree ]

\* One call of fetchSource.
FetchSource ==
    \E ref \in RefArgs, customHash \in HashArgs, e \in FetchEnvs :
        LET dir == Cardinality(tmpDirs) + 1
            r   == fetchSource(remote, ref, customHash, dir, e)
        IN  /\ dir <= MaxFetches
            \* a failure of a call that this run never makes is the run without it
            /\ e.fault # "none" => r.err # "none"
            /\ tmpDirs' = IF r.created # 0 THEN tmpDirs \cup {r.created} ELSE tmpDirs
            /\ fetch' = [ called |-> TRUE, ref |-> ref, customHash |-> customHash,
                          remote |-> remote, path |-> r.path, hash |-> r.hash,
                          err |-> r.err, created |-> r.created, worktree |-> r.worktree ]
            /\ fetchPrev' = IF fetch.called /\ fetch.err = "none" /\ fetch.customHash # 0
                            THEN Pinned(fetch)
                            ELSE NoPinned
            /\ UNCHANGED <<remote, chainVars, peerVars, genVars, jsVars, appVars>>

\* A new commit is pushed to a branch of the remote.
AdvanceTip ==
    \E b \in Branches :
        /\ Len(remote.parent) < MaxCommits
        /\ remote' = [ parent |-> Append(remote.parent, remote.refs[b]),
                       refs   |-> [remote.refs EXCEPT ![b] = Len(remote.parent) + 1] ]
        /\ UNCHANGED <<tmpDirs, fetch, fetchPrev, chainVars, peerVars, genVars, jsVars, appVars>>

\* A remote with a root commit and one commit on each of two branches.
InitRemote ==
    [ parent |-> <<0, 1, 1>>,
      refs   |-> [b \in Branches |-> IF b = "main" THEN 2 ELSE 3] ]

\* ------------------------------------- updateConfigFromGenesisValidators

\* strconv.Itoa(i + 22000): the first local port of the tunnel clients.
BasePort == 22000

\* The genesis validators of the launch, by their peer: a node id (0 is the
\* empty id), the kind of connection, and its address; for an HTTP tunnel
\* `name` and `addr` are the tunnel's name and address.
Validators ==
    { [id |-> 1, conn |-> "tcp",    name |-> "",       addr |-> "1.2.3.4:26656"],
      [id |-> 2, conn |-> "tunnel", name |-> "relayA", addr |-> "https://a"],
      [id |-> 3, conn |-> "tunnel", name |-> "relayB", addr |-> "https://b"],
      [id |-> 4, conn |-> "none",   name |-> "",       addr |-> ""],
      [id |-> 0, conn |-> "tcp",    name |-> "",       addr |-> "1.2.3.4:26656"] }

\* cosmosutil.VerifyPeerFormat: the peer has a node id.
VerifyPeerFormat(peer) == peer.id # 0

\* fmt.Sprintf("%s@%s", id, tcpAddress)
PeerAddress(id, address) == <<id, "@", address>>

\* fmt.Sprintf("%s@127.0.0.1:%s", nodeID, localPort)
LocalPeerAddress(id, port) == <<id, "@", "127.0.0.1", port>>

LocalPortFixed(i) == BasePort
\* LocalPort of the validator at index i (from 0) of the list.
LocalPort(i) == i + BasePort

TunneledPeer(val, i) ==
    [ name |-> val.name, address |-> val.addr, nodeID |-> val.id,
      localPort |-> LocalPort(i) ]

AddPeerFront(p2pAddresses, entry) == <<entry>> \o p2pAddresses
AddPeer(p2pAddresses, entry) == Append(p2pAddresses, entry)

\* The loop over the validators, from index i (from 0) on; it returns at the
\* first validator it rejects.
RECURSIVE PeerLoop(_, _, _, _)
PeerLoop(vals, i, p2pAddresses, tunnelAddresses) ==
    IF i >= Len(vals)
    THEN [err |-> "none", p2p |-> p2pAddresses, tunnels |-> tunnelAddresses]
    ELSE LET val == vals[i + 1] IN
         IF ~VerifyPeerFormat(val)
         THEN [err |-> "invalid peer", p2p |-> p2pAddresses, tunnels |-> tunnelAddresses]
         ELSE IF val.conn = "tcp"
         THEN PeerLoop(vals, i + 1,
                       AddPeer(p2pAddresses, PeerAddress(val.id, val.addr)),
                       tunnelAddresses)
         ELSE IF val.conn = "tunnel"
         THEN LET tp == TunneledPeer(val, i) IN
              PeerLoop(vals, i + 1,
                       AddPeer(p2pAddresses, LocalPeerAddress(tp.nodeID, tp.localPort)),
                       Append(tunnelAddresses, tp))
         ELSE [err |-> "invalid peer type", p2p |-> p2pAddresses, tunnels |-> tunnelAddresses]

LoopAbortsOnFormatOnly(err) == err = "invalid peer"
\* Both rejections return from the function inside the loop.
LoopAborts(err) == err # "none"

\* config.toml: the two p2p keys the function sets, and one key it does not.
DefaultConfig == [peers |-> <<>>, allowDup |-> FALSE, other |-> "default"]

\* config.toml after os.OpenFile(..., O_TRUNC) when nothing was written.
TruncatedConfig == [peers |-> <<>>, allowDup |-> FALSE, other |-> ""]

\* The file of the tunnelled peers, when there is none.
NoSPNConfig == [exists |-> FALSE, tunneledPeers |-> <<>>]

\* SetSPNConfig(Config{TunneledPeers: tunnelAddresses}, path)
SetSPNConfig(tunnelAddresses) == [exists |-> TRUE, tunneledPeers |-> tunnelAddresses]

SetPersistentPeersMerged(old, p2pAddresses) == old \o p2pAddresses
\* configToml.Set("p2p.persistent_peers", strings.Join(p2pAddresses, ","))
SetPersistentPeers(old, p2pAddresses) == p2pAddresses

\* if len(tunnelAddresses) > 0 { configToml.Set("p2p.allow_duplicate_ip", true) }
SetAllowDuplicateIP(old, tunnelAddresses) ==
    IF Len(tunnelAddresses) > 0 THEN TRUE ELSE old

ConfigFaults ==
    {"none", "ConfigTOMLPath", "LoadFile", "OpenFile", "WriteTo", "SPNConfigPath", "SetSPNConfig"}

ConfigEnvs == [fault : ConfigFaults]

ConfigResult(ret, cfg, spnFile) == [ret |-> ret, config |-> cfg, spn |-> spnFile]

HasTunnelsAlways(tunnelAddresses) == TRUE
\* if len(tunnelAddresses) > 0
HasTunnels(tunnelAddresses) == Len(tunnelAddresses) > 0

\* The tunnel part of the function, after config.toml was handled.
WriteSPNConfig(tunnelAddresses, cfg, spnFile, e) ==
    IF HasTunnels(tunnelAddresses)
    THEN IF e.fault = "SPNConfigPath" THEN ConfigResult("SPNConfigPath", cfg, spnFile)
         ELSE IF e.fault = "SetSPNConfig" THEN ConfigResult("SetSPNConfig", cfg, spnFile)
         ELSE ConfigResult("none", cfg, SetSPNConfig(tunnelAddresses))
    ELSE ConfigResult("none", cfg, spnFile)

\* updateConfigFromGenesisValidators(vals) on the files cfg and spnFile.
updateConfigFromGenesisValidators(vals, cfg, spnFile, e) ==
    LET l == PeerLoop(vals, 0, <<>>, <<>>) IN
    IF LoopAborts(l.err) THEN ConfigResult(l.err, cfg, spnFile)
    ELSE IF Len(l.p2p) > 0
    THEN IF e.fault = "ConfigTOMLPath" THEN ConfigResult("ConfigTOMLPath", cfg, spnFile)
         ELSE IF e.fault = "LoadFile" THEN ConfigResult("LoadFile", cfg, spnFile)
         ELSE LET configToml ==
                      [ peers    |-> SetPersistentPeers(cfg.peers, l.p2p),
                        allowDup |-> SetAllowDuplicateIP(cfg.allowDup, l.tunnels),
                        other    |-> cfg.other ]
              IN  IF e.fault = "OpenFile" THEN ConfigResult("OpenFile", cfg, spnFile)
                  ELSE IF e.fault = "WriteTo"
                  THEN ConfigResult("WriteTo", TruncatedConfig, spnFile)
                  ELSE WriteSPNConfig(l.tunnels, configToml, spnFile, e)
    ELSE WriteSPNConfig(l.tunnels, cfg, spnFile, e)

NoPeerRun ==
    [ called |-> FALSE, fault |-> "none", ret |-> "none",
      configBefore |-> DefaultConfig, spnBefore |-> NoSPNConfig ]

\* One call of updateConfigFromGenesisValidators(genesisVals).
Configure ==
    \E e \in ConfigEnvs :
        LET r == updateConfigFromGenesisValidators(genesisVals, config, spn, e) IN
        \* a failure of a call that this run never makes is the run without it
        /\ e.fault # "none" => r.ret = e.fault
        /\ config' = r.config
        /\ spn' = r.spn
        /\ peerRun' = [ called |-> TRUE, fault |-> e.fault, ret |-> r.ret,
                        configBefore |-> config, spnBefore |-> spn ]
        /\ UNCHANGED <<genesisVals, chainVars, fetchVars, genVars, jsVars, appVars>>

\* The launch gets one more genesis validator.
AddValidator ==
    \E val \in Validators :
        /\ Len(genesisVals) < MaxValidators
        /\ \A i \in DOMAIN genesisVals : genesisVals[i] # val
        /\ genesisVals' = Append(genesisVals, val)
        /\ peerRun' = NoPeerRun
        /\ UNCHANGED <<config, spn, chainVars, fetchVars, genVars, jsVars, appVars>>

\* The launch starts over with no genesis validator.
ResetValidators ==
    /\ genesisVals # <<>>
    /\ genesisVals' = <<>>
    /\ peerRun' = NoPeerRun
    /\ UNCHANGED <<config, spn, chainVars, fetchVars, genVars, jsVars, appVars>>

\* Peers somebody wrote into config.toml by hand.
ManualPeers == <<PeerAddress(9, "9.9.9.9:26656")>>

\* config.toml is edited by hand.
EditConfig ==
    \E p \in {<<>>, ManualPeers}, o \in {"default", "edited"} :
        /\ config' = [config EXCEPT !.peers = p, !.other = o]
        /\ config' # config
        /\ peerRun' = NoPeerRun
        /\ UNCHANGED <<genesisVals, spn, chainVars, fetchVars, genVars, jsVars, appVars>>

InitPeerVars ==
    /\ genesisVals = <<>>
    /\ config = DefaultConfig
    /\ spn = NoSPNConfig
    /\ peerRun = NoPeerRun

\* ------------------------------------------------------------ buildGenesis

\* Addresses of the launch carry the prefix of the network; key 0 is an
\* address that cannot be decoded.
Address(key) == [prefix |-> "spn", key |-> key]

AccountPool == {Address(1), Address(2), Address(0)}

\* Lists of distinct entries of pool, up to n of them.
DistinctLists(pool, n) ==
    { s \in UNION { [1..k -> pool] : k \in 0..n } :
        \A i, j \in DOMAIN s : i # j => s[i] # s[j] }

AccountLists == DistinctLists(AccountPool, MaxAccounts)

VestingLists == { <<>>, <<Address(3)>>, <<Address(0)>> }

\* Gentx files that an earlier preparation with other validators left.
StaleGentxs == <<7, 8, 9>>

GenesisValidatorLists ==
    DistinctLists({val \in Validators : val.id \in {1, 2, 4}}, MaxValidators)

\* c.detectPrefix(ctx): the address prefix of the chain.
detectPrefix == "cosmos"

\* cosmosutil.ChangeAddressPrefix fails on an address it cannot decode,
DecodesAddress(address) == address.key # 0

\* and otherwise encodes the same key under the new prefix.
ChangeAddressPrefix(address, prefix) == [address EXCEPT !.prefix = prefix]

\* The genesis file: its accounts, vesting accounts, the gentxs gathered
\* into it, and its genesis time.
DefaultGenesis ==
    [accounts |-> <<>>, vesting |-> <<>>, gentxs |-> <<>>, time |-> "initial"]

\* The chain's command refuses an address that the genesis already has.
HasAccount(gen, address) ==
    \/ \E k \in DOMAIN gen.accounts : gen.accounts[k] = address
    \/ \E k \in DOMAIN gen.vesting : gen.vesting[k] = address

\* cmd.AddGenesisAccount writes the account into the genesis file.
AddGenesisAccount(gen, address) == [gen EXCEPT !.accounts = Append(@, address)]

\* cmd.AddVestingAccount writes the vesting account into the genesis file.
AddVestingAccount(gen, address) == [gen EXCEPT !.vesting = Append(@, address)]

\* cmd.CollectGentxs gathers the files of the gentx directory into the genesis.
CollectGentxs(gen, dir) == [gen EXCEPT !.gentxs = dir]

\* cosmosutil.SetGenesisTime(genesisPath, c.launchTime)
SetGenesisTime(gen) == [gen EXCEPT !.time = "launchTime"]

\* Calls of buildGenesis that can return an error, besides those of
\* updateConfigFromGenesisValidators; `at` tells which entry of the list the
\* failing call is for.
GenesisFaults ==
    { "detectPrefix", "Commands/accounts", "AddGenesisAccount", "Commands/vesting",
      "AddVestingAccount", "GentxsPath", "RemoveAll", "MkdirAll", "WriteFile",
      "Commands/validators", "CollectGentxs", "GenesisPath", "SetGenesisTime" }

PerEntryFaults == {"AddGenesisAccount", "AddVestingAccount", "WriteFile"}

GenesisEnvs ==
    { e \in [fault : GenesisFaults \cup ConfigFaults, at : 1..MaxValidators] :
        e.at = 1 \/ e.fault \in PerEntryFaults }

\* What a run has done so far: the error it returns ("none" while it has
\* none), the files, and the calls that took effect, in their order.
Fail(st, err) == [st EXCEPT !.ret = err]

Did(st, kind, i) == [st EXCEPT !.trace = Append(@, <<kind, i>>)]

\* The loop of applyGenesisAccounts from entry i on.
RECURSIVE AccountLoop(_, _, _, _, _)
AccountLoop(genesisAccs_, i, addressPrefix, st, e) ==
    IF i > Len(genesisAccs_) THEN st
    ELSE IF ~DecodesAddress(genesisAccs_[i]) THEN Fail(st, "ChangeAddressPrefix")
    ELSE LET address == ChangeAddressPrefix(genesisAccs_[i], addressPrefix) IN
         IF (e.fault = "AddGenesisAccount" /\ e.at = i) \/ HasAccount(st.genesis, address)
         THEN Fail(st, "AddGenesisAccount")
         ELSE AccountLoop(genesisAccs_, i + 1, addressPrefix,
                          Did([st EXCEPT !.genesis = AddGenesisAccount(@, address)],
                              "account", i), e)

applyGenesisAccounts(genesisAccs_, addressPrefix, st, e) ==
    IF e.fault = "Commands/accounts" THEN Fail(st, "Commands/accounts")
    ELSE AccountLoop(genesisAccs_, 1, addressPrefix, st, e)

\* The loop of applyVestingAccounts from entry i on.
RECURSIVE VestingLoop(_, _, _, _, _)
VestingLoop(vestingAccs_, i, addressPrefix, st, e) ==
    IF i > Len(vestingAccs_) THEN st
    ELSE IF ~DecodesAddress(vestingAccs_[i]) THEN Fail(st, "ChangeAddressPrefix")
    ELSE LET address == ChangeAddressPrefix(vestingAccs_[i], addressPrefix) IN
         IF (e.fault = "AddVestingAccount" /\ e.at = i) \/ HasAccount(st.genesis, address)
         THEN Fail(st, "AddVestingAccount")
         ELSE VestingLoop(vestingAccs_, i + 1, addressPrefix,
                          Did([st EXCEPT !.genesis = AddVestingAccount(@, address)],
                              "vesting", i), e)

applyVestingAccounts(vestingAccs_, addressPrefix, st, e) ==
    IF e.fault = "Commands/vesting" THEN Fail(st, "Commands/vesting")
    ELSE VestingLoop(vestingAccs_, 1, addressPrefix, st, e)

\* The loop that writes gentx<i>.json, from validator i on; the directory is
\* the list of the files' contents, gentx0.json first.
RECURSIVE GentxLoop(_, _, _, _)
GentxLoop(vals, i, st, e) ==
    IF i > Len(vals) THEN st
    ELSE IF e.fault = "WriteFile" /\ e.at = i THEN Fail(st, "WriteFile")
    ELSE GentxLoop(vals, i + 1,
                   Did([st EXCEPT !.gentxDir = Append(@, vals[i].id)], "gentx", i), e)

SkipsValidatorsNever(vals) == FALSE
\* if len(genesisVals) == 0 { return nil }
SkipsValidators(vals) == Len(vals) = 0

RemoveAllKeepsFiles(dir) == dir
\* os.RemoveAll(gentxDir) followed by os.MkdirAll(gentxDir): an empty directory.
RemoveAll(dir) == <<>>

applyGenesisValidators(vals, st, e) ==
    IF SkipsValidators(vals) THEN st
    ELSE IF e.fault = "GentxsPath" THEN Fail(st, "GentxsPath")
    ELSE IF e.fault = "RemoveAll" THEN Fail(st, "RemoveAll")
    ELSE IF e.fault = "MkdirAll"
    THEN Fail(Did([st EXCEPT !.gentxDir = RemoveAll(@)], "clear", 0), "MkdirAll")
    ELSE LET written ==
                 GentxLoop(vals, 1, Did([st EXCEPT !.gentxDir = RemoveAll(@)], "clear", 0), e)
         IN
         IF written.ret # "none" THEN written
         ELSE IF e.fault = "Commands/validators" THEN Fail(written, "Commands/validators")
         ELSE IF e.fault = "CollectGentxs" THEN Fail(written, "CollectGentxs")
         ELSE LET collected ==
                      Did([written EXCEPT !.genesis = CollectGentxs(@, written.gentxDir)],
                          "collect", 0)
                  r == updateConfigFromGenesisValidators(
                           vals, collected.config, collected.spn, [fault |-> e.fault])
                  updated == [collected EXCEPT !.config = r.config, !.spn = r.spn]
              IN  IF r.ret # "none" THEN Fail(updated, r.ret)
                  ELSE Did(updated, "peers", 0)

setGenesisTime(st, e) ==
    IF e.fault = "GenesisPath" THEN Fail(st, "GenesisPath")
    ELSE IF e.fault = "SetGenesisTime" THEN Fail(st, "SetGenesisTime")
    ELSE Did([st EXCEPT !.genesis = SetGenesisTime(@)], "time", 0)

GenesisStepsVestingFirst == <<"vesting", "accounts", "validators", "time">>
\* The order in which buildGenesis applies the genesis information.
GenesisSteps == <<"accounts", "vesting", "validators", "time">>

ApplyStep(step, gi, addressPrefix, st, e) ==
    IF step = "accounts" THEN applyGenesisAccounts(gi.accounts, addressPrefix, st, e)
    ELSE IF step = "vesting" THEN applyVestingAccounts(gi.vesting, addressPrefix, st, e)
    ELSE IF step = "validators" THEN applyGenesisValidators(gi.vals, st, e)
    ELSE setGenesisTime(st, e)

\* The steps from the k-th on; the first error ends the run.
RECURSIVE RunSteps(_, _, _, _, _, _)
RunSteps(steps, k, gi, addressPrefix, st, e) ==
    IF k > Len(steps) \/ st.ret # "none" THEN st
    ELSE RunSteps(steps, k + 1, gi, addressPrefix,
                  ApplyStep(steps[k], gi, addressPrefix, st, e), e)

\* buildGenesis(ctx, gi) on the files of st.
buildGenesis(gi, st, e) ==
    IF e.fault = "detectPrefix" THEN Fail(st, "detectPrefix")
    ELSE RunSteps(GenesisSteps, 1, gi, detectPrefix, st, e)

NoGenRun ==
    [ called |-> FALSE, fault |-> "none", ret |-> "none", trace |-> <<>>, afterSuccess |-> FALSE,
      genesisBefore |-> DefaultGenesis, gentxDirBefore |-> <<>>,
      configBefore |-> DefaultConfig, spnBefore |-> NoSPNConfig ]

\* One call of buildGenesis with the genesis information of the launch.
BuildGenesis ==
    \E e \in GenesisEnvs :
        LET gi == [accounts |-> genesisAccs, vesting |-> vestingAccs, vals |-> genesisVals]
            st == [ ret |-> "none", genesis |-> genesis, gentxDir |-> gentxDir,
                    config |-> config, spn |-> spn, trace |-> <<>> ]
            r  == buildGenesis(gi, st, e)
        IN  \* a failure of a call that this run never makes is the run without it
            /\ e.fault # "none" => r.ret = e.fault
            /\ genesis' = r.genesis
            /\ gentxDir' = r.gentxDir
            /\ config' = r.config
            /\ spn' = r.spn
            /\ genRun' = [ called |-> TRUE, fault |-> e.fault, ret |-> r.ret,
                           trace |-> r.trace,
                           afterSuccess |-> genRun.called /\ genRun.ret = "none",
                           genesisBefore |-> genesis, gentxDirBefore |-> gentxDir,
                           configBefore |-> config, spnBefore |-> spn ]
            /\ peerRun' = NoPeerRun
            /\ UNCHANGED <<genesisAccs, vestingAccs, genesisVals, chainVars, fetchVars, jsVars, appVars>>

\* initGenesis: the genesis file is made anew from the chain's defaults.
InitGenesis ==
    /\ genesis # DefaultGenesis
    /\ genesis' = DefaultGenesis
    /\ genRun' = NoGenRun
    /\ peerRun' = NoPeerRun
    /\ UNCHANGED <<genesisAccs, vestingAccs, gentxDir, genesisVals, config, spn,
                   chainVars, fetchVars, jsVars, appVars>>

InitGenVars ==
    /\ genesisAccs = <<>>
    /\ vestingAccs = <<>>
    /\ genesis = DefaultGenesis
    /\ gentxDir = <<>>
    /\ genRun = NoGenRun

\* --------------------------------------------- jsGenerator.generateModules

\* The calls of generateModule, in their order.
ModuleSteps ==
    << "resolveInclude", "MkdirAll", "protoc.Generate/types", "MkdirTemp",
       "protoc.Generate/openapi", "sta.Generate", "templateJSClient.Write",
       "templateVuexStore.Write", "tsc.Generate" >>

\* The calls that are handed a context and return when it is cancelled.
TakesContext(step) ==
    step \in {"protoc.Generate/types", "protoc.Generate/openapi", "sta.Generate", "tsc.Generate"}

\* templateVuexStore.Write is only called when a Vuex store path is set.
Skipped(step) == step = "templateVuexStore.Write" /\ ~jsVuex

\* The position of the next call after position pc that is made; one past
\* the last position when there is none.
RECURSIVE NextStep(_)
NextStep(pc) ==
    IF pc + 1 > Len(ModuleSteps) THEN pc + 1
    ELSE IF Skipped(ModuleSteps[pc + 1]) THEN NextStep(pc + 1)
    ELSE pc + 1

\* gg := &errgroup.Group{}: a group that was not made by errgroup.WithContext
\* has no cancel function.
GroupHasCancel == FALSE

NoError == 0

\* tsproto.BinaryPath() at the start of generateModules.
StartGenerate ==
    /\ jsMain = "start"
    /\ \/ jsMain' = "spawn" /\ jsResult' = jsResult
       \/ jsMain' = "returned" /\ jsResult' = "BinaryPath"
    /\ UNCHANGED <<jsModules, jsVuex, jsWorkers, jsGroupErr, jsErrOrder, ctxDone>>
    /\ UNCHANGED <<chainVars, fetchVars, peerVars, genVars, appVars>>

\* gg.Go(...) for the next module: its worker starts with the first call.
Spawn ==
    /\ jsMain = "spawn"
    /\ Len(jsWorkers) < jsModules
    /\ jsWorkers' = Append(jsWorkers, [st |-> "running", pc |-> 1])
    /\ UNCHANGED <<jsModules, jsVuex, jsMain, jsGroupErr, jsErrOrder, ctxDone, jsResult>>
    /\ UNCHANGED <<chainVars, fetchVars, peerVars, genVars, appVars>>

\* The call a worker is at returns nil.
WorkerStep ==
    \E w \in DOMAIN jsWorkers :
        /\ jsWorkers[w].st = "running"
        /\ jsWorkers' =
              [ jsWorkers EXCEPT ![w] =
                  IF NextStep(@.pc) > Len(ModuleSteps)
                  THEN [st |-> "done", pc |-> 0]
                  ELSE [st |-> "running", pc |-> NextStep(@.pc)] ]
        /\ UNCHANGED <<jsModules, jsVuex, jsMain, jsGroupErr, jsErrOrder, ctxDone, jsResult>>
        /\ UNCHANGED <<chainVars, fetchVars, peerVars, genVars, appVars>>

\* A worker returns the error w to the group: the group keeps the first
\* error and calls its cancel function when it has one.
ReturnError(w, st) ==
    /\ jsWorkers' = [jsWorkers EXCEPT ![w] = [st |-> st, pc |-> 0]]
    /\ jsGroupErr' = IF jsGroupErr = NoError THEN w ELSE jsGroupErr
    /\ jsErrOrder' = Append(jsErrOrder, w)
    /\ ctxDone' = IF GroupHasCancel THEN TRUE ELSE ctxDone
    /\ UNCHANGED <<jsModules, jsVuex, jsMain, jsResult>>
    /\ UNCHANGED <<chainVars, fetchVars, peerVars, genVars, appVars>>

\* The call a worker is at returns an error of its own.
WorkerFail ==
    \E w \in DOMAIN jsWorkers :
        /\ jsWorkers[w].st = "running"
        /\ ReturnError(w, "failed")

\* The call a worker is at sees the cancelled context and returns its error.
WorkerCancelled ==
    \E w \in DOMAIN jsWorkers :
        /\ jsWorkers[w].st = "running"
        /\ ctxDone
        /\ TakesContext(ModuleSteps[jsWorkers[w].pc])
        /\ ReturnError(w, "cancelled")

\* The owner of the generator's context cancels it.
CancelContext ==
    /\ ~ctxDone
    /\ jsMain # "returned"
    /\ ctxDone' = TRUE
    /\ UNCHANGED <<jsModules, jsVuex, jsMain, jsWorkers, jsGroupErr, jsErrOrder, jsResult>>
    /\ UNCHANGED <<chainVars, fetchVars, peerVars, genVars, appVars>>

\* gg.Wait() returns once every worker has returned, with the group's error.
Wait ==
    /\ jsMain = "spawn"
    /\ Len(jsWorkers) = jsModules
    /\ \A w \in DOMAIN jsWorkers : jsWorkers[w].st # "running"
    /\ jsMain' = "returned"
    /\ jsResult' = IF jsGroupErr = NoError THEN "nil" ELSE "error"
    /\ UNCHANGED <<jsModules, jsVuex, jsWorkers, jsGroupErr, jsErrOrder, ctxDone>>
    /\ UNCHANGED <<chainVars, fetchVars, peerVars, genVars, appVars>>

InitJSVars ==
    /\ jsModules = 0
    /\ jsVuex = FALSE
    /\ jsMain = "start"
    /\ jsWorkers = <<>>
    /\ jsGroupErr = NoError
    /\ jsErrOrder = <<>>
    /\ ctxDone = FALSE
    /\ jsResult = "none"

\* --------------------------------------------------------- FindAppFilePath

appFileName == "app.go"

appImplementation == {"Name", "BeginBlocker", "EndBlocker"}

\* The files under the chain root, as directory, name and extension, in the
\* lexical order in which filepath.Walk visits them.
WalkOrder ==
    << <<"app", "app.go", ".go">>, <<"app", "simapp.go", ".go">>,
       <<"cmd", "app.go", ".go">>, <<"docs", "app.md", ".md">> >>

AppPaths == {WalkOrder[i] : i \in DOMAIN WalkOrder}

\* What a file can hold: the methods it declares, as <<receiver type, name>>.
Contents ==
    { {},
      {<<"App", "Name">>, <<"App", "BeginBlocker">>, <<"App", "EndBlocker">>},
      {<<"App", "Name">>, <<"App", "BeginBlocker">>},
      {<<"A", "Name">>, <<"B", "BeginBlocker">>, <<"B", "EndBlocker">>, <<"B", "Other">>} }

NoFile == [exists |-> FALSE, methods |-> {}]

\* filepath.Base(p)
Base(p) == p[2]

\* filepath.Ext(info.Name())
Ext(p) == p[3]

\* checkImplementation on what findImplementationInFiles has marked for a
\* receiver type: every method of the interface list is marked.
checkImplementation(methods, structName) ==
    \A m \in appImplementation : <<structName, m>> \in methods

\* findImplementationInFiles([]*ast.File{f}, appImplementation)
findImplementationInFiles(methods) ==
    { structName \in {mm[1] : mm \in methods} : checkImplementation(methods, structName) }

\* The walk: the paths of the .go files in which an implementation is found.
Found(tree) ==
    SelectSeq(WalkOrder,
              LAMBDA p : /\ tree[p].exists
                         /\ Ext(p) = ".go"
                         /\ findImplementationInFiles(tree[p].methods) # {})

IsAppFileAny(p) == TRUE
\* filepath.Base(p) == appFileName
IsAppFile(p) == Base(p) = appFileName

AppResult(path, err) == [path |-> path, err |-> err]

NoPath == <<>>

\* The loop over found from position i on, with the app.go seen so far.
RECURSIVE AppLoop(_, _, _)
AppLoop(found, i, appFilePath) ==
    IF i > Len(found)
    THEN IF appFilePath # NoPath
         THEN AppResult(appFilePath, "none")
         ELSE AppResult(NoPath, "multiple app files found, but no app.go file")
    ELSE IF IsAppFile(found[i])
    THEN IF appFilePath # NoPath
         THEN AppResult(NoPath, "multiple app.go files found")
         ELSE AppLoop(found, i + 1, found[i])
    ELSE AppLoop(found, i + 1, appFilePath)

\* FindAppFilePath(chainRoot); walkErr: the walk or the parser returns an error.
FindAppFilePath(tree, walkErr) ==
    IF walkErr THEN AppResult(NoPath, "walk")
    ELSE LET found == Found(tree) IN
         IF Len(found) = 0 THEN AppResult(NoPath, "app file not found")
         ELSE IF Len(found) = 1 THEN AppResult(found[1], "none")
         ELSE AppLoop(found, 1, NoPath)

NoAppRun == [called |-> FALSE, walkErr |-> FALSE, path |-> NoPath, err |-> "none"]

\* One call of FindAppFilePath on the chain root.
FindApp ==
    \E walkErr \in BOOLEAN :
        LET r == FindAppFilePath(appTree, walkErr) IN
        /\ appFound' = [called |-> TRUE, walkErr |-> walkErr, path |-> r.path, err |-> r.err]
        /\ UNCHANGED <<appTree, chainVars, fetchVars, peerVars, genVars, jsVars>>

\* A file of the chain root is written.
WriteAppFile ==
    \E p \in AppPaths, c \in Contents :
        /\ appTree[p] # [exists |-> TRUE, methods |-> c]
        /\ appTree' = [appTree EXCEPT ![p] = [exists |-> TRUE, methods |-> c]]
        /\ appFound' = NoAppRun
        /\ UNCHANGED <<chainVars, fetchVars, peerVars, genVars, jsVars>>

\* A file of the chain root is removed.
RemoveAppFile ==
    \E p \in AppPaths :
        /\ appTree[p].exists
        /\ appTree' = [appTree EXCEPT ![p] = NoFile]
        /\ appFound' = NoAppRun
        /\ UNCHANGED <<chainVars, fetchVars, peerVars, genVars, jsVars>>

InitAppVars ==
    /\ appTree = [p \in AppPaths |-> NoFile]
    /\ appFound = NoAppRun

InitBuild ==
    /\ launchID \in LaunchIDs
    /\ hash \in Hashes
    /\ binary = 0
    /\ cache = {}
    /\ last = NoBuild
    /\ homeExists = FALSE
    /\ valKey = 0
    /\ prep = NoPrep
    /\ remote = InitRemote
    /\ tmpDirs = {}
    /\ fetch = NoFetch
    /\ fetchPrev = NoPinned
    /\ InitPeerVars
    /\ InitGenVars
    /\ InitJSVars
    /\ InitAppVars

NextBuild == Build \/ SourceLaunch \/ ReplaceBinary \/ DeleteBinary

SpecBuild == InitBuild /\ [][NextBuild]_vars

InitPrepare ==
    /\ launchID \in LaunchIDs
    /\ hash \in Hashes
    /\ binary = 0
    /\ cache = {}
    /\ last = NoBuild
    /\ homeExists \in BOOLEAN
    /\ valKey = 0
    /\ prep = NoPrep
    /\ remote = InitRemote
    /\ tmpDirs = {}
    /\ fetch = NoFetch
    /\ fetchPrev = NoPinned
    /\ InitPeerVars
    /\ InitGenVars
    /\ InitJSVars
    /\ InitAppVars

NextPrepare == Prepare \/ Build \/ ReplaceBinary \/ DeleteBinary \/ RemoveHome

SpecPrepare == InitPrepare /\ [][NextPrepare]_vars

InitFetch ==
    /\ launchID = 0
    /\ hash = 1
    /\ binary = 0
    /\ cache = {}
    /\ last = NoBuild
    /\ homeExists = FALSE
    /\ valKey = 0
    /\ prep = NoPrep
    /\ remote = InitRemote
    /\ tmpDirs = {}
    /\ fetch = NoFetch
    /\ fetchPrev = NoPinned
    /\ InitPeerVars
    /\ InitGenVars
    /\ InitJSVars
    /\ InitAppVars

NextFetch == FetchSource \/ AdvanceTip

SpecFetch == InitFetch /\ [][NextFetch]_vars

InitPeers == InitFetch

NextPeers == Configure \/ AddValidator \/ ResetValidators \/ EditConfig

SpecPeers == InitPeers /\ [][NextPeers]_vars

InitAssembly ==
    /\ launchID = 0
    /\ hash = 1
    /\ binary = 0
    /\ cache = {}
    /\ last = NoBuild
    /\ homeExists = TRUE
    /\ valKey = 1
    /\ prep = NoPrep
    /\ remote = InitRemote
    /\ tmpDirs = {}
    /\ fetch = NoFetch
    /\ fetchPrev = NoPinned
    /\ genesisVals \in GenesisValidatorLists
    /\ config = DefaultConfig
    /\ spn = NoSPNConfig
    /\ peerRun = NoPeerRun
    /\ genesisAccs \in AccountLists
    /\ vestingAccs \in VestingLists
    /\ genesis = DefaultGenesis
    /\ gentxDir \in {<<>>, StaleGentxs}
    /\ genRun = NoGenRun
    /\ InitJSVars
    /\ InitAppVars

NextGenesis == BuildGenesis \/ InitGenesis

SpecGenesis == InitAssembly /\ [][NextGenesis]_vars

\* No chain is being prepared or fetched.
InitIdle ==
    /\ launchID = 0
    /\ hash = 1
    /\ binary = 0
    /\ cache = {}
    /\ last = NoBuild
    /\ homeExists = FALSE
    /\ valKey = 0
    /\ prep = NoPrep
    /\ remote = InitRemote
    /\ tmpDirs = {}
    /\ fetch = NoFetch
    /\ fetchPrev = NoPinned
    /\ InitPeerVars
    /\ InitGenVars

InitWorkers ==
    /\ InitIdle
    /\ InitAppVars
    /\ jsModules \in 0..MaxModules
    /\ jsVuex \in BOOLEAN
    /\ jsMain = "start"
    /\ jsWorkers = <<>>
    /\ jsGroupErr = NoError
    /\ jsErrOrder = <<>>
    /\ ctxDone = FALSE
    /\ jsResult = "none"

NextWorkers ==
    StartGenerate \/ Spawn \/ WorkerStep \/ WorkerFail \/ WorkerCancelled
        \/ CancelContext \/ Wait

SpecWorkers == InitWorkers /\ [][NextWorkers]_vars

InitApp == InitIdle /\ InitJSVars /\ InitAppVars

NextApp == FindApp \/ WriteAppFile \/ RemoveAppFile

SpecApp == InitApp /\ [][NextApp]_vars

\* --------------------------------------------------- claims on Chain.Build
\* The cache lookup of the Build call that just returned ran to its end.
LookupCompleted ==
    /\ last.called
    /\ last.launchID # 0
    /\ last.failedAt \notin {"binary", "lookupchecksum", "lookup"}

\* Before the call the cache held a record of this launch with the chain's
\* source hash and with the checksum of the binary that was then on disk.
RecordMatched ==
    /\ last.prior # NoRec
    /\ last.prior.sourceHash = last.hash
    /\ last.pre # 0
    /\ last.prior.binaryChecksum = last.pre

ReturnedCachedBinary == last.ret = "binary" /\ ~last.built

\* C5: with a non-zero launch identity, Build returns the existing binary
\* without running the adapter's build exactly when the cache holds a record
\* of (launchID, current source hash) whose checksum is the checksum of the
\* binary on disk; in every other case in which the lookup ran to its end
\* (no record, other source hash, changed or missing binary) the adapter's
\* build is run.
C5_CacheHitIffRecordMatches ==
    /\ (last.called /\ last.launchID # 0 /\ ReturnedCachedBinary) => RecordMatched
    /\ LookupCompleted => (ReturnedCachedBinary <=> RecordMatched)
    /\ LookupCompleted => (~RecordMatched => last.built)

C5_Witness ==
    /\ LookupCompleted
    /\ RecordMatched
    /\ ReturnedCachedBinary
    /\ last.hit

\* C6: after a successful build the one cache record of the launch is
\* (launchID, current source hash, checksum of the binary just built); a Build
\* that follows with the source hash and the binary unchanged does not
\* rebuild and leaves the record; a Build that follows a replaced or deleted
\* binary or a changed source hash rebuilds and, when it succeeds, rewrites
\* the record.
C6_RecordFollowsBuilds ==
    /\ (last.called /\ last.launchID # 0 /\ last.built /\ last.ret = "binary") =>
          /\ {r \in cache : r.launchID = last.launchID}
                = {[launchID |-> last.launchID, sourceHash |-> last.hash,
                    binaryChecksum |-> last.post]}
          /\ last.post # 0
          /\ binary = last.post
    /\ (LookupCompleted /\ last.prior # NoRec) =>
          IF last.hash = last.prior.sourceHash /\ last.pre = last.prior.binaryChecksum
          THEN /\ ~last.built
               /\ binary = last.pre
               /\ {r \in cache : r.launchID = last.launchID} = {last.prior}
          ELSE last.built

C6_Witness ==
    /\ LookupCompleted
    /\ last.prior # NoRec
    /\ last.prior.sourceHash = last.hash
    /\ last.pre # last.prior.binaryChecksum
    /\ last.built
    /\ last.stored
    /\ last.post # last.prior.binaryChecksum

\* C7: with launch identity zero Build never consults the cache and always
\* runs the adapter's build, whatever records exist and whatever binary is on
\* disk.
C7_ZeroLaunchAlwaysBuilds ==
    (last.called /\ last.launchID = 0) =>
        /\ ~last.consulted
        /\ ~last.hit
        /\ last.sum1 = "notrun"
        /\ last.built

\* A record of launch zero matched the source hash and the binary on disk,
\* and the build was run all the same.
C7_Witness ==
    /\ last.called
    /\ last.launchID = 0
    /\ RecordMatched
    /\ last.built

\* C8: a Build with launch identity zero never writes a cache record: the
\* cache is the same after the call as before it.
C8_ZeroLaunchWritesNoRecord ==
    (last.called /\ last.launchID = 0) =>
        /\ ~last.stored
        /\ RecordOf(cache, 0) = last.prior

\* C9: in Build a checksum failure of the "tool not found" class is never
\* fatal, before the cache lookup and after the build alike, and every other
\* checksum failure aborts Build.
C9_NotFoundNeverFatal ==
    last.called =>
        /\ last.sum1 = "notfound" => last.failedAt # "lookupchecksum"
        /\ last.sum2 = "notfound" => last.failedAt # "checksum"
        /\ last.sum1 = "other" => (last.failedAt = "lookupchecksum" /\ last.ret = "err")
        /\ last.sum2 = "other" => (last.failedAt = "checksum" /\ last.ret = "err")

\* ------------------------------------------------- claims on Chain.Prepare
Made(step) == step \in Elems(prep.trace)

\* The position of a call in the trace of the Prepare call, 0 when not made.
Pos(step) ==
    IF Made(step)
    THEN CHOOSE i \in 1..Len(prep.trace) : prep.trace[i] = step
    ELSE 0

\* The call was made and did not fail.
Succeeded(step) == Made(step) /\ prep.fault # step

\* The steps the ordering claims speak of (the others only read a path or
\* build the command runner).
IsMainStep(step) ==
    step \in {"Init", "Build", "initGenesis", "buildGenesis", "ValidateGenesis", "UnsafeReset"}

\* C1: Prepare picks its entry branch from the presence of the home directory
\* alone: with no home it runs Init (a new validator key) and neither Build
\* nor initGenesis; with a home it runs Build and then initGenesis, never
\* Init, and the validator key is not regenerated; when the existence check
\* fails with another error it returns the error and runs none of Init,
\* Build, initGenesis or any later step.
C1_EntryBranchFromHome ==
    prep.called =>
        /\ prep.stat = "notexist" =>
              /\ ~prep.homeBefore
              /\ Made("Init") /\ ~Made("Build") /\ ~Made("initGenesis")
              /\ Succeeded("Init") => (valKey = prep.keyBefore + 1 /\ homeExists)
        /\ prep.stat = "ok" =>
              /\ prep.homeBefore
              /\ Made("Build") /\ ~Made("Init")
              /\ Succeeded("Build") => (Made("initGenesis") /\ Pos("Build") < Pos("initGenesis"))
              /\ valKey = prep.keyBefore
              /\ homeExists
        /\ prep.stat = "error" =>
              /\ prep.ret = "err"
              /\ prep.trace = <<"Home", "Stat">>
              /\ valKey = prep.keyBefore
              /\ homeExists = prep.homeBefore
        /\ prep.stat = "none" => (prep.ret = "err" /\ prep.trace = <<"Home">>)

\* Preparation is run again on a home that an earlier run initialized.
C1_Witness ==
    /\ prep.called
    /\ prep.stat = "ok"
    /\ prep.keyBefore >= 1
    /\ valKey = prep.keyBefore
    /\ Made("initGenesis")
    /\ prep.ret = "nil"

\* C2: a Prepare that returns success ran (Init | Build, initGenesis), then
\* buildGenesis, ValidateGenesis and UnsafeReset, in this order and nothing
\* else; in every run UnsafeReset is made only after ValidateGenesis
\* succeeded and ValidateGenesis only after buildGenesis succeeded.
C2_StepOrder ==
    prep.called =>
        /\ prep.ret = "nil" =>
              SelectSeq(prep.trace, IsMainStep) \in
                  { <<"Init", "buildGenesis", "ValidateGenesis", "UnsafeReset">>,
                    <<"Build", "initGenesis", "buildGenesis", "ValidateGenesis", "UnsafeReset">> }
        /\ Made("UnsafeReset") =>
              (Succeeded("ValidateGenesis") /\ Pos("ValidateGenesis") < Pos("UnsafeReset"))
        /\ Made("ValidateGenesis") =>
              (Succeeded("buildGenesis") /\ Pos("buildGenesis") < Pos("ValidateGenesis"))

C2_Witness ==
    /\ prep.called
    /\ prep.stat = "notexist"
    /\ prep.ret = "nil"
    /\ Made("UnsafeReset")

\* C3: when a call of Prepare fails, Prepare returns an error, makes no
\* later call and repeats none; it returns nil only if every call of its
\* branch was made and succeeded.
C3_FirstFailureAborts ==
    prep.called =>
        /\ \A i, j \in 1..Len(prep.trace) : prep.trace[i] = prep.trace[j] => i = j
        /\ (Made(prep.fault) \/ prep.stat = "error") =>
              /\ prep.ret = "err"
              /\ prep.trace[Len(prep.trace)] =
                    (IF Made(prep.fault) THEN prep.fault ELSE "Stat")
        /\ prep.ret = "nil" =>
              /\ \A step \in Elems(prep.trace) : Succeeded(step)
              /\ prep.stat \in {"notexist", "ok"}
              /\ Len(prep.trace) = 8
              /\ prep.trace[8] = "UnsafeReset"
        /\ prep.ret \in {"nil", "err"}

C3_Witness ==
    /\ prep.called
    /\ prep.fault = "ValidateGenesis"
    /\ Made("ValidateGenesis")
    /\ ~Made("UnsafeReset")
    /\ prep.ret = "err"

\* C4: on the branch of an existing home, Prepare does not run the adapter's
\* build when the cache holds a record matching the launch identity, the
\* source hash and the checksum of the binary on disk.
C4_HasHomeConsultsCache ==
    (prep.called /\ prep.stat = "ok" /\ prep.cacheHit) => ~Made("Build")

\* ---------------------------------------------------- claims on fetchSource
\* C10: with a pinned hash, whatever ref is given, a fetchSource that
\* succeeds has checked out exactly that commit and returns the pinned hash;
\* with no pinned hash it returns the hash of the HEAD of the cloned ref; a
\* pinned hash that the cloned history does not hold makes fetchSource fail
\* with an empty path and an empty hash.
C10_PinnedHashWins ==
    fetch.called =>
        LET tip  == IF fetch.ref = "" THEN fetch.remote.refs[DefaultBranch]
                    ELSE fetch.remote.refs[fetch.ref]
            held == IF fetch.ref = ""
                    THEN 1..Len(fetch.remote.parent)
                    ELSE Ancestors(fetch.remote.parent, fetch.remote.refs[fetch.ref])
        IN  /\ (fetch.customHash # 0 /\ fetch.err = "none") =>
                  /\ fetch.hash = fetch.customHash
                  /\ fetch.worktree = fetch.customHash
                  /\ fetch.path # 0
            /\ (fetch.customHash = 0 /\ fetch.err = "none") =>
                  /\ fetch.hash = tip
                  /\ fetch.worktree = tip
                  /\ fetch.path # 0
            /\ (fetch.customHash # 0 /\ fetch.ref \in Branches \cup {""}
                  /\ fetch.customHash \notin held) =>
                  /\ fetch.err # "none"
                  /\ fetch.path = 0
                  /\ fetch.hash = 0
            /\ fetch.err # "none" => (fetch.path = 0 /\ fetch.hash = 0)

\* A branch and a pinned hash that is not the tip of the branch are given,
\* and the pinned commit is the one checked out.
C10_Witness ==
    /\ fetch.called
    /\ fetch.ref = "dev"
    /\ fetch.customHash # 0
    /\ fetch.customHash # fetch.remote.refs["dev"]
    /\ fetch.err = "none"
    /\ fetch.hash = fetch.customHash
    /\ fetch.worktree = fetch.customHash

\* C11: two fetchSource calls with the same pinned hash and the same ref that
\* both succeed return the same hash and check out the same commit, also when
\* branch tips of the remote moved between the two calls.
C11_PinnedFetchDeterministic ==
    ( /\ fetch.called /\ fetch.err = "none" /\ fetch.customHash # 0
      /\ fetchPrev.called
      /\ fetchPrev.customHash = fetch.customHash
      /\ fetchPrev.ref = fetch.ref ) =>
        /\ fetch.hash = fetchPrev.hash
        /\ fetch.worktree = fetchPrev.worktree

\* The same pinned reference is fetched twice and the tip of the cloned
\* branch moved in between.
C11_Witness ==
    /\ fetch.called /\ fetch.err = "none" /\ fetch.customHash # 0
    /\ fetchPrev.called
    /\ fetchPrev.customHash = fetch.customHash
    /\ fetchPrev.ref = fetch.ref
    /\ fetch.ref = "main"
    /\ fetch.remote.refs["main"] # fetch.customHash
    /\ fetch.remote.refs["main"] = Len(fetch.remote.parent)
    /\ Len(fetch.remote.parent) > 3
    /\ fetch.worktree = fetchPrev.worktree

\* ------------------------ claims on updateConfigFromGenesisValidators

\* The latest step was a call of the function that returned nil.
Configured == peerRun.called /\ peerRun.ret = "none"

\* A peer that is neither a TCP address nor an HTTP tunnel, or has no node id.
Malformed(val) == val.id = 0 \/ val.conn \notin {"tcp", "tunnel"}

IsTunnel(val) == val.conn = "tunnel"

\* The entry of persistent_peers that the validator at position i (from 1)
\* of the list stands for.
ExpectedPeer(vals, i) ==
    IF vals[i].conn = "tcp"
    THEN <<vals[i].id, "@", vals[i].addr>>
    ELSE <<vals[i].id, "@", "127.0.0.1", 22000 + (i - 1)>>

\* C15: when a validator of the list has a malformed peer, the call returns
\* an error and config.toml and the file of the tunnelled peers are what they
\* were before the call, wherever the validator is in the list.
C15_MalformedPeerWritesNothing ==
    ( /\ peerRun.called
      /\ \E i \in DOMAIN genesisVals : Malformed(genesisVals[i]) ) =>
        /\ peerRun.ret \in {"invalid peer", "invalid peer type"}
        /\ config = peerRun.configBefore
        /\ spn = peerRun.spnBefore

\* The malformed validator comes after a well-formed tunnel validator, and
\* both files had content from an earlier call.
C15_Witness ==
    /\ peerRun.called
    /\ Len(genesisVals) = 2
    /\ IsTunnel(genesisVals[1]) /\ ~Malformed(genesisVals[1])
    /\ Malformed(genesisVals[2])
    /\ peerRun.ret \in {"invalid peer", "invalid peer type"}
    /\ peerRun.configBefore.peers # <<>>
    /\ peerRun.spnBefore.exists
    /\ config = peerRun.configBefore
    /\ spn = peerRun.spnBefore

\* C16: after a successful call with n >= 1 validators persistent_peers has
\* n entries in the order of the list, id@tcpAddress for a TCP validator and
\* id@127.0.0.1:(22000 + index) for a tunnel validator.
C16_PeersFollowValidatorList ==
    (Configured /\ Len(genesisVals) >= 1) =>
        /\ Len(config.peers) = Len(genesisVals)
        /\ \A i \in DOMAIN genesisVals : config.peers[i] = ExpectedPeer(genesisVals, i)

\* A TCP validator followed by a tunnel validator: the second entry has port 22001.
C16_Witness ==
    /\ Configured
    /\ Len(genesisVals) = 2
    /\ genesisVals[1].conn = "tcp"
    /\ IsTunnel(genesisVals[2])
    /\ config.peers = << <<genesisVals[1].id, "@", genesisVals[1].addr>>,
                         <<genesisVals[2].id, "@", "127.0.0.1", 22001>> >>

\* C17: after a successful call with a tunnel validator, the tunnelled peers
\* written are the tunnel validators of the list in their order, each with
\* local port 22000 + its index in the whole list, so the ports lie in
\* 22000..22000+n-1 and no two are equal.
C17_TunnelPorts ==
    (Configured /\ \E i \in DOMAIN genesisVals : IsTunnel(genesisVals[i])) =>
        LET tps == spn.tunneledPeers IN
        /\ spn.exists
        /\ \A k \in DOMAIN tps :
              /\ \E i \in DOMAIN genesisVals :
                    /\ IsTunnel(genesisVals[i])
                    /\ genesisVals[i].id = tps[k].nodeID
                    /\ tps[k].localPort = 22000 + (i - 1)
              /\ tps[k].localPort \in 22000..(22000 + Len(genesisVals) - 1)
        /\ \A k, m \in DOMAIN tps : k # m => tps[k].localPort # tps[m].localPort
        /\ \A i \in DOMAIN genesisVals :
              IsTunnel(genesisVals[i]) =>
                  \E k \in DOMAIN tps : tps[k].nodeID = genesisVals[i].id

\* Two tunnel validators in one list get the ports 22000 and 22001.
C17_Witness ==
    /\ Configured
    /\ Len(genesisVals) = 2
    /\ IsTunnel(genesisVals[1]) /\ IsTunnel(genesisVals[2])
    /\ Len(spn.tunneledPeers) = 2
    /\ spn.tunneledPeers[1].localPort = 22000
    /\ spn.tunneledPeers[2].localPort = 22001

\* C18: after a successful call, allow_duplicate_ip is true exactly when the
\* list of that call has a tunnel validator.
C18_AllowDuplicateIPIffTunnel ==
    (Configured /\ Len(genesisVals) >= 1) =>
        (config.allowDup <=> \E i \in DOMAIN genesisVals : IsTunnel(genesisVals[i]))

\* C19: a successful call with a non-empty list leaves in persistent_peers
\* only the peers of that list, whatever the key held before, and leaves the
\* other key of config.toml as it was.
C19_PeersOverwritten ==
    (Configured /\ Len(genesisVals) > 0) =>
        /\ Len(config.peers) = Len(genesisVals)
        /\ \A k \in DOMAIN config.peers :
              \E i \in DOMAIN genesisVals : config.peers[k] = ExpectedPeer(genesisVals, i)
        /\ \A k \in DOMAIN peerRun.configBefore.peers :
              (\A i \in DOMAIN genesisVals :
                    peerRun.configBefore.peers[k] # ExpectedPeer(genesisVals, i)) =>
                  \A m \in DOMAIN config.peers :
                      config.peers[m] # peerRun.configBefore.peers[k]
        /\ config.other = peerRun.configBefore.other

\* config.toml had a hand-written peer and an edited key before the call.
C19_Witness ==
    /\ Configured
    /\ Len(genesisVals) > 0
    /\ peerRun.configBefore.peers = ManualPeers
    /\ peerRun.configBefore.other = "edited"
    /\ config.other = "edited"
    /\ \A m \in DOMAIN config.peers : config.peers[m] # ManualPeers[1]

\* ------------------------------------------------- claims on buildGenesis

\* The entries of kind `kind` that the latest run applied, in their order.
Applied(kind) ==
    SelectSeq(genRun.trace, LAMBDA t : t[1] = kind)

HasApplied(kind) == Len(Applied(kind)) > 0

\* The place of a kind of call in the order of buildGenesis.
Rank(kind) ==
    CASE kind = "account" -> 1
      [] kind = "vesting" -> 2
      [] kind = "clear"   -> 3
      [] kind = "gentx"   -> 3
      [] kind = "collect" -> 4
      [] kind = "peers"   -> 5
      [] kind = "time"    -> 6

\* The entries of a kind were applied in input order, none left out before
\* a later one.
InInputOrder(kind) ==
    \A k \in DOMAIN Applied(kind) : Applied(kind)[k][2] = k

\* C12: a run of buildGenesis applies genesis accounts, then vesting
\* accounts, then the validators' gentxs, then the genesis time: a vesting
\* account only after all genesis accounts, a gentx only after all vesting
\* accounts, the genesis time only after the validator step, and the entries
\* of each kind in input order.
C12_AssemblyOrder ==
    genRun.called =>
        /\ \A p, q \in DOMAIN genRun.trace :
              p < q => Rank(genRun.trace[p][1]) <= Rank(genRun.trace[q][1])
        /\ InInputOrder("account") /\ InInputOrder("vesting") /\ InInputOrder("gentx")
        /\ HasApplied("vesting") => Len(Applied("account")) = Len(genesisAccs)
        /\ (HasApplied("gentx") \/ HasApplied("collect")) =>
              /\ Len(Applied("account")) = Len(genesisAccs)
              /\ Len(Applied("vesting")) = Len(vestingAccs)
        /\ HasApplied("collect") => Len(Applied("gentx")) = Len(genesisVals)
        /\ HasApplied("time") =>
              /\ Len(Applied("account")) = Len(genesisAccs)
              /\ Len(Applied("vesting")) = Len(vestingAccs)
              /\ Len(genesisVals) > 0 => HasApplied("peers")

\* A successful run with two genesis accounts, a vesting account and two
\* validators.
C12_Witness ==
    /\ genRun.called /\ genRun.ret = "none"
    /\ Len(genesisAccs) = 2 /\ Len(vestingAccs) = 1 /\ Len(genesisVals) = 2
    /\ genRun.trace = << <<"account", 1>>, <<"account", 2>>, <<"vesting", 1>>,
                         <<"clear", 0>>, <<"gentx", 1>>, <<"gentx", 2>>, <<"collect", 0>>,
                         <<"peers", 0>>, <<"time", 0>> >>
    /\ genesis.time = "launchTime"

\* C13: when a run of buildGenesis returns an error, the genesis file is what
\* it was before the run.
C13_FailedRunKeepsGenesis ==
    (genRun.called /\ genRun.ret # "none") => genesis = genRun.genesisBefore

\* C14: when a validator has a malformed peer, the run returns an error and
\* the genesis file has no account, vesting account or gentx of this run.
C14_MalformedPeerKeepsGenesis ==
    ( /\ genRun.called
      /\ genRun.fault = "none"
      /\ \E i \in DOMAIN genesisVals : Malformed(genesisVals[i])
      /\ \A i \in DOMAIN genesisAccs : DecodesAddress(genesisAccs[i])
      /\ \A i \in DOMAIN vestingAccs : DecodesAddress(vestingAccs[i]) ) =>
        /\ genRun.ret # "none"
        /\ genesis = genRun.genesisBefore

\* C20: a run of buildGenesis that follows a successful run with the same
\* genesis information, and in which no call of the chain or of the system
\* fails by itself, succeeds and leaves the genesis file, the gentx directory,
\* config.toml and the file of the tunnelled peers as the first run left them.
C20_SecondRunSame ==
    (genRun.called /\ genRun.afterSuccess /\ genRun.fault = "none") =>
        /\ genRun.ret = "none"
        /\ genesis = genRun.genesisBefore
        /\ gentxDir = genRun.gentxDirBefore
        /\ config = genRun.configBefore
        /\ spn = genRun.spnBefore

\* C22: when an address of the genesis accounts or of the vesting accounts
\* cannot be re-encoded, the run fails and has applied no account and no
\* vesting account.
C22_ReencodingBeforeApplying ==
    ( /\ genRun.called
      /\ genRun.fault = "none"
      /\ \/ \E i \in DOMAIN genesisAccs : ~DecodesAddress(genesisAccs[i])
         \/ \E i \in DOMAIN vestingAccs : ~DecodesAddress(vestingAccs[i]) ) =>
        /\ genRun.ret # "none"
        /\ ~HasApplied("account")
        /\ ~HasApplied("vesting")
        /\ genesis.accounts = genRun.genesisBefore.accounts
        /\ genesis.vesting = genRun.genesisBefore.vesting

\* The gentx of each validator of the list, in the order of the list.
ExpectedGentxs == [i \in 1..Len(genesisVals) |-> genesisVals[i].id]

\* The place in the trace of the first call of a kind.
First(kind) ==
    CHOOSE p \in DOMAIN genRun.trace :
        /\ genRun.trace[p][1] = kind
        /\ \A q \in DOMAIN genRun.trace : genRun.trace[q][1] = kind => p <= q

\* C23: with n >= 1 validators the gentx directory is cleared first, then
\* file i is written with the gentx of validator i, in order, and
\* CollectGentxs is called only after the n files were written; what it
\* gathers is these n files and nothing an earlier run left.
C23_GentxDirClearedThenWritten ==
    (genRun.called /\ Len(genesisVals) >= 1) =>
        /\ HasApplied("gentx") =>
              /\ HasApplied("clear")
              /\ First("clear") < First("gentx")
              /\ InInputOrder("gentx")
              /\ gentxDir = SubSeq(ExpectedGentxs, 1, Len(Applied("gentx")))
        /\ HasApplied("collect") =>
              /\ Len(Applied("gentx")) = Len(genesisVals)
              /\ \A p \in DOMAIN genRun.trace :
                    genRun.trace[p][1] = "gentx" => p < First("collect")
              /\ gentxDir = ExpectedGentxs
              /\ genesis.gentxs = ExpectedGentxs

\* Two validators are gathered in a directory that held three files of an
\* earlier run.
C23_Witness ==
    /\ genRun.called
    /\ Len(genesisVals) = 2
    /\ genRun.gentxDirBefore = StaleGentxs
    /\ HasApplied("collect")
    /\ gentxDir = <<genesisVals[1].id, genesisVals[2].id>>
    /\ genesis.gentxs = gentxDir

\* C24: with no validator the run neither clears nor writes the gentx
\* directory, does not call CollectGentxs, leaves config.toml and the file of
\* the tunnelled peers alone, and goes on to set the genesis time.
C24_ZeroValidatorsSkipped ==
    (genRun.called /\ Len(genesisVals) = 0) =>
        /\ ~HasApplied("clear") /\ ~HasApplied("gentx")
        /\ ~HasApplied("collect") /\ ~HasApplied("peers")
        /\ gentxDir = genRun.gentxDirBefore
        /\ config = genRun.configBefore
        /\ spn = genRun.spnBefore
        /\ genesis.gentxs = genRun.genesisBefore.gentxs
        /\ genRun.ret = "none" => (HasApplied("time") /\ genesis.time = "launchTime")
        /\ ( /\ genRun.fault = "none"
             /\ Len(Applied("account")) = Len(genesisAccs)
             /\ Len(Applied("vesting")) = Len(vestingAccs) ) => genRun.ret = "none"

\* A run without validators succeeds in a home whose gentx directory has
\* files of an earlier run.
C24_Witness ==
    /\ genRun.called /\ genRun.ret = "none"
    /\ Len(genesisVals) = 0
    /\ Len(genesisAccs) > 0
    /\ genRun.gentxDirBefore = StaleGentxs
    /\ gentxDir = StaleGentxs
    /\ HasApplied("time")

\* C25: when fetchSource returns an error, the temporary directory it made
\* does not exist any more.
C25_FailedFetchRemovesTempDir ==
    (fetch.called /\ fetch.err # "none") => fetch.created \notin tmpDirs

\* The tunnelled peers that a list of validators stands for.
ExpectedTunneledPeers ==
    LET tunnels == SelectSeq([i \in 1..Len(genesisVals) |-> i],
                             LAMBDA i : IsTunnel(genesisVals[i]))
    IN  [ k \in 1..Len(tunnels) |->
            [ name      |-> genesisVals[tunnels[k]].name,
              address   |-> genesisVals[tunnels[k]].addr,
              nodeID    |-> genesisVals[tunnels[k]].id,
              localPort |-> 22000 + (tunnels[k] - 1) ] ]

\* C26: a successful call writes the file of the tunnelled peers exactly
\* when the list has a tunnel validator, after it wrote config.toml, with one
\* entry per tunnel validator in the order of the list (node id, name,
\* address, local port); with no tunnel validator the file stays as it was.
C26_TunnelFileIffTunnel ==
    peerRun.called =>
        /\ (\A i \in DOMAIN genesisVals : ~IsTunnel(genesisVals[i])) =>
              spn = peerRun.spnBefore
        /\ (Configured /\ \E i \in DOMAIN genesisVals : IsTunnel(genesisVals[i])) =>
              /\ spn = [exists |-> TRUE, tunneledPeers |-> ExpectedTunneledPeers]
              /\ \A i \in DOMAIN genesisVals : config.peers[i] = ExpectedPeer(genesisVals, i)
        /\ peerRun.ret # "none" => spn = peerRun.spnBefore

\* A list without tunnel validator is configured while the file holds the
\* tunnelled peers of an earlier call.
C26_Witness ==
    /\ Configured
    /\ Len(genesisVals) >= 1
    /\ \A i \in DOMAIN genesisVals : ~IsTunnel(genesisVals[i])
    /\ peerRun.spnBefore.exists
    /\ Len(peerRun.spnBefore.tunneledPeers) >= 1
    /\ spn = peerRun.spnBefore

\* ------------------------------------------- claims on generateModules

\* C21: once a worker has returned an error the shared context is
\* cancelled, so that the workers still running stop, and generateModules
\* returns the first error.
C21_GroupFailsFast ==
    /\ ( /\ jsGroupErr # NoError
         /\ \E w \in DOMAIN jsWorkers : jsWorkers[w].st = "running" ) => ctxDone
    /\ (jsMain = "returned" /\ jsErrOrder # <<>>) =>
          (jsResult = "error" /\ jsGroupErr = jsErrOrder[1])

\* ------------------------------------------- claims on FindAppFilePath

\* The .go files with a type that has the three methods.
AppFiles ==
    { p \in AppPaths :
        /\ appTree[p].exists
        /\ p[3] = ".go"
        /\ \E t \in {"App", "A", "B"} :
              /\ <<t, "Name">> \in appTree[p].methods
              /\ <<t, "BeginBlocker">> \in appTree[p].methods
              /\ <<t, "EndBlocker">> \in appTree[p].methods }

NamedAppGo == {p \in AppFiles : p[2] = "app.go"}

====
